---- MODULE Spec2Model ----
(***************************************************************************)
(* Model of the abc-macros procedural macros: the enum_ranges! front end   *)
(* (NamedRange, NamedRangeList and RangedEnum parsers), its code generator *)
(* (RangedEnum::to_tokens) together with the meaning of the code it emits, *)
(* and the DescribeStruct derive macro.                                    *)
(***************************************************************************)
EXTENDS Integers, Sequences, FiniteSets, TLC

VARIABLES
    src,         \* the invocation as written: attribute chunks, entries, trailing comma, damage
    tokens,      \* the macro input: top-level token trees
    group,       \* the token stream inside the brace group of the input (or a bare stream)
    pos,         \* the cursor of the top-level ParseStream
    unexpected,  \* syn's "unexpected token" cell shared by nested parse buffers
    attributes,  \* RangedEnum.attributes
    name,        \* RangedEnum.name
    variants,    \* RangedEnum.variants.list
    ranged,      \* the result of parsing one NamedRange on its own
    err,         \* the syn::Error that has been raised, if any
    output,      \* the token stream a macro returns
    x,           \* the argument try_from was called with
    result,      \* what the generated try_from returned
    ident,       \* the identifier of the type DescribeStruct is derived on
    pc           \* the position inside the running macro

vars == <<src, tokens, group, pos, unexpected, attributes, name, variants,
          ranged, err, output, x, result, ident, pc>>

-----------------------------------------------------------------------------
(* Bounds of the model *)

MaxTokens == 2      \* Range Tokens in a declaration
MaxAttrs == 2       \* attribute chunks in front of the enum name
MaxX == 3           \* arguments 0..MaxX are passed to the generated try_from
MaxRawLen == 5      \* tokens in a stream handed to NamedRange::parse alone
MaxNameLen == 4     \* characters in a derived type's name

Names == {"A", "B"}
Starts == {0, 1}
Ends == {<<>>, <<0>>, <<2>>}           \* Option<u64>: <<>> is None, <<m>> is Some(m)
Metas == {"derive(Debug)", "repr(u8)"} \* attribute contents that parse as a Meta
EnumName == "N"

-----------------------------------------------------------------------------
(* Tokens *)

Tok(t, s, v) == [t |-> t, s |-> s, v |-> v]
Ident(s) == Tok("ident", s, 0)
Punct(s) == Tok("punct", s, 0)
Kw(s) == Tok("kw", s, 0)
LitInt(v) == Tok("int", "", v)             \* an integer literal that fits u64
LitBig == Tok("int", "big", 0)             \* an integer literal above u64::MAX
LitU64(v) == Tok("int", "u64", v)          \* what quote! emits for a u64 value
LitStr(s) == Tok("str", s, 0)
Bracket(s) == Tok("bracket", s, 0)         \* a [...] group with content s
Brace == Tok("brace", "", 0)               \* the {...} group; its stream is `group`

IsTok(s, p, tk) == p <= Len(s) /\ s[p] = tk
IsKind(s, p, t) == p <= Len(s) /\ s[p].t = t

None == <<>>
Some(v) == <<v>>

NoErr == [stage |-> "none", at |-> 0, msg |-> ""]
Error(stage, at, msg) == [stage |-> stage, at |-> at, msg |-> msg]

-----------------------------------------------------------------------------
(* NamedRange::parse *)

NamedRangeOf(n, s, e) == [name |-> n, start |-> s, end |-> e]
NoRange == NamedRangeOf("", 0, None)

ParseOk(v, p) == [ok |-> TRUE, value |-> v, pos |-> p, msg |-> ""]
ParseErr(p, m) == [ok |-> FALSE, value |-> NoRange, pos |-> p, msg |-> m]

\* base10_parse::<u64> of the literal at p
Base10Fails(s, p) == s[p].s = "big"

\* a dangling .. is taken as no upper bound
MutNamedRangeParse(s, p) ==
    IF ~IsKind(s, p, "ident") THEN ParseErr(p, "expected identifier")
    ELSE IF ~IsTok(s, p + 1, Punct(":")) THEN ParseErr(p + 1, "expected :")
    ELSE IF ~IsKind(s, p + 2, "int") THEN ParseErr(p + 2, "expected integer literal")
    ELSE IF Base10Fails(s, p + 2) THEN ParseErr(p + 2, "number too large to fit in target type")
    ELSE IF ~IsTok(s, p + 3, Punct("..")) THEN
        ParseOk(NamedRangeOf(s[p].s, s[p + 2].v, None), p + 3)
    ELSE IF ~IsKind(s, p + 4, "int") THEN
        ParseOk(NamedRangeOf(s[p].s, s[p + 2].v, None), p + 4)
    ELSE IF Base10Fails(s, p + 4) THEN ParseErr(p + 4, "number too large to fit in target type")
    ELSE ParseOk(NamedRangeOf(s[p].s, s[p + 2].v, Some(s[p + 4].v)), p + 5)

NamedRangeParse(s, p) ==
    IF ~IsKind(s, p, "ident") THEN ParseErr(p, "expected identifier")
    ELSE IF ~IsTok(s, p + 1, Punct(":")) THEN ParseErr(p + 1, "expected :")
    ELSE IF ~IsKind(s, p + 2, "int") THEN ParseErr(p + 2, "expected integer literal")
    ELSE IF Base10Fails(s, p + 2) THEN ParseErr(p + 2, "number too large to fit in target type")
    ELSE IF ~IsTok(s, p + 3, Punct("..")) THEN
        ParseOk(NamedRangeOf(s[p].s, s[p + 2].v, None), p + 3)
    ELSE IF ~IsKind(s, p + 4, "int") THEN ParseErr(p + 4, "expected integer literal")
    ELSE IF Base10Fails(s, p + 4) THEN ParseErr(p + 4, "number too large to fit in target type")
    ELSE ParseOk(NamedRangeOf(s[p].s, s[p + 2].v, Some(s[p + 4].v)), p + 5)

-----------------------------------------------------------------------------
(* NamedRangeList::parse: Punctuated::<NamedRange, Token![,]>::parse_terminated *)

\* a list parser that wants a Range Token after every comma
RECURSIVE MutParseTerminated(_, _, _)
MutParseTerminated(s, p, acc) ==
    LET r == NamedRangeParse(s, p) IN
    IF p > Len(s) /\ acc = <<>> THEN [ok |-> TRUE, list |-> acc, pos |-> p, msg |-> ""]
    ELSE IF ~r.ok THEN [ok |-> FALSE, list |-> <<>>, pos |-> r.pos, msg |-> r.msg]
    ELSE IF r.pos > Len(s) THEN
        [ok |-> TRUE, list |-> Append(acc, r.value), pos |-> r.pos, msg |-> ""]
    ELSE IF ~IsTok(s, r.pos, Punct(",")) THEN
        [ok |-> FALSE, list |-> <<>>, pos |-> r.pos, msg |-> "expected ,"]
    ELSE MutParseTerminated(s, r.pos + 1, Append(acc, r.value))

RECURSIVE ParseTerminated(_, _, _)
ParseTerminated(s, p, acc) ==
    IF p > Len(s) THEN [ok |-> TRUE, list |-> acc, pos |-> p, msg |-> ""]
    ELSE LET r == NamedRangeParse(s, p) IN
         IF ~r.ok THEN [ok |-> FALSE, list |-> <<>>, pos |-> r.pos, msg |-> r.msg]
         ELSE IF r.pos > Len(s) THEN
             [ok |-> TRUE, list |-> Append(acc, r.value), pos |-> r.pos, msg |-> ""]
         ELSE IF ~IsTok(s, r.pos, Punct(",")) THEN
             [ok |-> FALSE, list |-> <<>>, pos |-> r.pos, msg |-> "expected ,"]
         ELSE ParseTerminated(s, r.pos + 1, Append(acc, r.value))

\* a list parser that recovers from a bad Range Token by dropping the list
MutNamedRangeListParse(s) ==
    LET r == ParseTerminated(s, 1, <<>>) IN
    IF r.ok THEN r ELSE [ok |-> TRUE, list |-> <<>>, pos |-> r.pos, msg |-> ""]

NamedRangeListParse(s) == ParseTerminated(s, 1, <<>>)

-----------------------------------------------------------------------------
(* syn::Attribute::parse_outer, as RangedEnum::parse calls it *)

IsMeta(m) == m \in Metas

RECURSIVE AttributeParseOuter(_, _, _)
AttributeParseOuter(s, p, acc) ==
    IF ~IsTok(s, p, Punct("#")) THEN
        [ok |-> TRUE, attrs |-> acc, pos |-> p, unexpected |-> FALSE]
    ELSE IF ~IsKind(s, p + 1, "bracket") THEN
        \* the # is consumed, bracketed! fails
        [ok |-> FALSE, attrs |-> acc, pos |-> p + 1, unexpected |-> FALSE]
    ELSE IF ~IsMeta(s[p + 1].s) THEN
        \* the group is consumed, its content fails to parse and is left unread
        [ok |-> FALSE, attrs |-> acc, pos |-> p + 2, unexpected |-> TRUE]
    ELSE AttributeParseOuter(s, p + 2, Append(acc, s[p + 1].s))

\* keeps the attributes read before the failure
MutUnwrapOrEmpty(r) == r.attrs

\* Attribute::parse_outer(input).unwrap_or(vec![])
UnwrapOrEmpty(r) == IF r.ok THEN r.attrs ELSE <<>>

-----------------------------------------------------------------------------
(* The invocations the model feeds to enum_ranges! *)

SeqsUpTo(S, n) == UNION {[1..k -> S] : k \in 0..n}

Entries == {NamedRangeOf(n, s, e) : n \in Names, s \in Starts, e \in Ends}
DamagedEntries == {NamedRangeOf("A", 0, None), NamedRangeOf("B", 1, Some(2))}
Chunks == Metas \cup {"pound", "bad"}

ChunkTokens(c) ==
    IF c = "pound" THEN <<Punct("#")>>
    ELSE IF c = "bad" THEN <<Punct("#"), Bracket("123")>>
    ELSE <<Punct("#"), Bracket(c)>>

RECURSIVE RenderPre(_)
RenderPre(pre) ==
    IF pre = <<>> THEN <<>> ELSE ChunkTokens(Head(pre)) \o RenderPre(Tail(pre))

EntryTokens(e) ==
    <<Ident(e.name), Punct(":"), LitInt(e.start)>>
        \o (IF e.end = None THEN <<>> ELSE <<Punct(".."), LitInt(e.end[1])>>)

RECURSIVE RenderList(_)
RenderList(l) ==
    IF l = <<>> THEN <<>>
    ELSE IF Len(l) = 1 THEN EntryTokens(l[1])
    ELSE EntryTokens(Head(l)) \o <<Punct(",")>> \o RenderList(Tail(l))

RenderBody(l, trailing) == RenderList(l) \o (IF trailing THEN <<Punct(",")>> ELSE <<>>)

RenderTop(pre) == RenderPre(pre) \o <<Ident(EnumName), Brace>>

Delete(s, i) == SubSeq(s, 1, i - 1) \o SubSeq(s, i + 1, Len(s))

NoCut == [where |-> "none", at |-> 0]
Cuts(pre, l, trailing) ==
    {NoCut}
    \cup {[where |-> "top", at |-> i] : i \in 1..Len(RenderTop(pre))}
    \cup {[where |-> "body", at |-> i] : i \in 1..Len(RenderBody(l, trailing))}

Written(pre, l, trailing, cut) ==
    [pre |-> pre, entries |-> l, trailing |-> trailing, cut |-> cut]

TopOf(w) ==
    IF w.cut.where = "top" THEN Delete(RenderTop(w.pre), w.cut.at) ELSE RenderTop(w.pre)
BodyOf(w) ==
    IF w.cut.where = "body" THEN Delete(RenderBody(w.entries, w.trailing), w.cut.at)
    ELSE RenderBody(w.entries, w.trailing)

\* whole declarations, no attributes
ListInvocations ==
    {Written(<<>>, l, t, NoCut) : l \in SeqsUpTo(Entries, MaxTokens), t \in BOOLEAN}
\* attribute chunks of every kind in front of a short declaration
AttrInvocations ==
    {Written(pre, l, FALSE, NoCut) : pre \in SeqsUpTo(Chunks, MaxAttrs), l \in SeqsUpTo(Entries, 1)}
\* declarations with one token missing
DamagedInvocations ==
    UNION {UNION {UNION {{Written(pre, l, t, c) : c \in Cuts(pre, l, t)}
                         : t \in BOOLEAN}
                  : l \in SeqsUpTo(DamagedEntries, MaxTokens)}
           : pre \in SeqsUpTo(Chunks, 1)}

Invocations == ListInvocations \cup AttrInvocations \cup DamagedInvocations

NoWritten == Written(<<>>, <<>>, FALSE, NoCut)
NoIdent == [text |-> "", raw |-> FALSE]

Init ==
    /\ src \in Invocations
    /\ tokens = TopOf(src)
    /\ group = BodyOf(src)
    /\ pos = 1
    /\ unexpected = FALSE
    /\ attributes = <<>>
    /\ name = ""
    /\ variants = <<>>
    /\ ranged = NoRange
    /\ err = NoErr
    /\ output = <<>>
    /\ x = 0
    /\ result = [kind |-> "none", variant |-> "", v |-> 0]
    /\ ident = [text |-> "", raw |-> FALSE]
    /\ pc = "attributes"

-----------------------------------------------------------------------------
(* RangedEnum::parse, one step per statement *)

\* let attributes = syn::Attribute::parse_outer(input).unwrap_or(vec![]);
ParseAttributes ==
    /\ pc = "attributes"
    /\ LET r == AttributeParseOuter(tokens, pos, <<>>) IN
        /\ attributes' = UnwrapOrEmpty(r)
        /\ pos' = r.pos
        /\ unexpected' = r.unexpected
    /\ pc' = "name"
    /\ UNCHANGED <<src, tokens, group, name, variants, ranged, err, output, x, result, ident>>

\* let name: Ident = input.parse()?;
ParseName ==
    /\ pc = "name"
    /\ IF IsKind(tokens, pos, "ident")
       THEN /\ name' = tokens[pos].s
            /\ pos' = pos + 1
            /\ pc' = "braced"
            /\ err' = err
       ELSE /\ err' = Error("name", pos, "expected identifier")
            /\ pc' = "error"
            /\ UNCHANGED <<name, pos>>
    /\ UNCHANGED <<src, tokens, group, unexpected, attributes, variants, ranged, output, x, result, ident>>

\* braced!(content in input);
ParseBraced ==
    /\ pc = "braced"
    /\ IF IsKind(tokens, pos, "brace")
       THEN /\ pos' = pos + 1
            /\ pc' = "variants"
            /\ err' = err
       ELSE /\ err' = Error("braced", pos, "expected curly braces")
            /\ pc' = "error"
            /\ pos' = pos
    /\ UNCHANGED <<src, tokens, group, unexpected, attributes, name, variants, ranged, output, x, result, ident>>

\* let variants: NamedRangeList = content.parse()?;
ParseVariants ==
    /\ pc = "variants"
    /\ LET r == NamedRangeListParse(group) IN
       IF r.ok
       THEN /\ variants' = r.list
            /\ pc' = "parsed"
            /\ err' = err
       ELSE /\ err' = Error("variants", r.pos, r.msg)
            /\ pc' = "error"
            /\ variants' = variants
    /\ UNCHANGED <<src, tokens, group, pos, unexpected, attributes, name, ranged, output, x, result, ident>>

-----------------------------------------------------------------------------
(* RangedEnum::to_tokens *)

\* #(#attributes)* : an Attribute is emitted as it was read
AttributeTokens(a) == <<Punct("#"), Bracket(a)>>

RECURSIVE AttributesTokens(_)
AttributesTokens(attrs) ==
    IF attrs = <<>> THEN <<>>
    ELSE AttributeTokens(Head(attrs)) \o AttributesTokens(Tail(attrs))

\* quote! { #name, }
VariantTokens(nr) == <<Ident(nr.name), Punct(",")>>

\* the variants collected in reverse
RECURSIVE MutVariantsTokens(_)
MutVariantsTokens(list) ==
    IF list = <<>> THEN <<>>
    ELSE MutVariantsTokens(Tail(list)) \o VariantTokens(Head(list))

RECURSIVE VariantsTokens(_)
VariantsTokens(list) ==
    IF list = <<>> THEN <<>>
    ELSE VariantTokens(Head(list)) \o VariantsTokens(Tail(list))

\* an else in front of every clause, the first included
MutElseToken(n) == <<Kw("else")>>

\* match n { 0 => TokenStream::new(), _ => quote! { else } }
ElseToken(n) == IF n = 0 THEN <<>> ELSE <<Kw("else")>>

\* { Ok(#name::#variant_name) }
OkBlock(enum, variant) ==
    <<Punct("{"), Ident("Ok"), Punct("("), Ident(enum), Punct("::"), Ident(variant),
      Punct(")"), Punct("}")>>

\* a closed interval start ..= end in place of the half-open one
MutTestTokens(enum, nr) ==
    IF nr.end = None
    THEN <<Kw("if"), Ident("x"), Punct("=="), LitU64(nr.start)>> \o OkBlock(enum, nr.name)
    ELSE <<Kw("if"), Punct("("), LitU64(nr.start), Punct("..="), LitU64(nr.end[1]), Punct(")"),
           Punct("."), Ident("contains"), Punct("("), Punct("&"), Ident("x"), Punct(")")>>
         \o OkBlock(enum, nr.name)

\* match (named_range.start, named_range.end) { ... }
TestTokens(enum, nr) ==
    IF nr.end = None
    THEN <<Kw("if"), Ident("x"), Punct("=="), LitU64(nr.start)>> \o OkBlock(enum, nr.name)
    ELSE <<Kw("if"), Punct("("), LitU64(nr.start), Punct(".."), LitU64(nr.end[1]), Punct(")"),
           Punct("."), Ident("contains"), Punct("("), Punct("&"), Ident("x"), Punct(")")>>
         \o OkBlock(enum, nr.name)

\* quote! { #else_token #test_tokens }
BranchTokens(enum, n, nr) == ElseToken(n) \o TestTokens(enum, nr)

\* .iter().enumerate().map(...).collect(), spliced by #(#branches)*
RECURSIVE BranchesTokens(_, _, _)
BranchesTokens(enum, list, n) ==
    IF list = <<>> THEN <<>>
    ELSE BranchTokens(enum, n, Head(list)) \o BranchesTokens(enum, Tail(list), n + 1)

EnumHeader(enum) == <<Kw("enum"), Ident(enum), Punct("{")>>

ImplHeader(enum) ==
    <<Kw("impl"), Ident("::core::convert::TryFrom<u64>"), Kw("for"), Ident(enum), Punct("{"),
      Kw("type"), Ident("Error"), Punct("="), Ident("u64"), Punct(";")>>

FnHeader ==
    <<Kw("fn"), Ident("try_from"), Punct("("), Ident("x"), Punct(":"), Ident("u64"), Punct(")"),
      Punct("->"), Ident("Result<Self, u64>"), Punct("{")>>

\* else { Err(x) }
ElseErr ==
    <<Kw("else"), Punct("{"), Ident("Err"), Punct("("), Ident("x"), Punct(")"), Punct("}")>>

ToTokens(attrs, enum, list) ==
    AttributesTokens(attrs)
        \o EnumHeader(enum) \o VariantsTokens(list) \o <<Punct("}")>>
        \o ImplHeader(enum) \o FnHeader
        \o BranchesTokens(enum, list, 0)
        \o ElseErr
        \o <<Punct("}"), Punct("}")>>

\* err.to_compile_error()
CompileErrorTokens(e) ==
    <<Ident("::core::compile_error"), Punct("!"), Punct("{"), LitStr(e.msg), Punct("}")>>

-----------------------------------------------------------------------------
(* The meaning of the emitted try_from: the body is one if / else-if / else  *)
(* expression of the host language, or it does not compile.                 *)

Ok(variant) == [kind |-> "Ok", variant |-> variant, v |-> 0]
Err(v) == [kind |-> "Err", variant |-> "", v |-> v]
DoesNotCompile == [kind |-> "does_not_compile", variant |-> "", v |-> 0]
NoResult == [kind |-> "none", variant |-> "", v |-> 0]

IndexOf(s, tk) == CHOOSE i \in 1..Len(s) : s[i] = tk /\ \A j \in 1..(i - 1) : s[j] # tk
Has(s, tk) == \E i \in 1..Len(s) : s[i] = tk

\* the tokens between the braces of fn try_from
FnBody(out) == SubSeq(out, IndexOf(out, Kw("fn")) + Len(FnHeader), Len(out) - 2)

\* the condition that starts at p: x == K, (K .. M).contains(&x) or (K ..= M).contains(&x)
Condition(b, p, xv) ==
    IF /\ IsTok(b, p, Ident("x")) /\ IsTok(b, p + 1, Punct("==")) /\ IsKind(b, p + 2, "int")
    THEN [ok |-> TRUE, val |-> (xv = b[p + 2].v), next |-> p + 3]
    ELSE IF /\ IsTok(b, p, Punct("(")) /\ IsKind(b, p + 1, "int")
            /\ (IsTok(b, p + 2, Punct("..")) \/ IsTok(b, p + 2, Punct("..=")))
            /\ IsKind(b, p + 3, "int")
            /\ SubSeq(b, p + 4, p + 10)
                 = <<Punct(")"), Punct("."), Ident("contains"), Punct("("), Punct("&"),
                     Ident("x"), Punct(")")>>
    THEN [ok |-> TRUE,
          val |-> /\ b[p + 1].v <= xv
                  /\ IF b[p + 2].s = ".." THEN xv < b[p + 3].v ELSE xv <= b[p + 3].v,
          next |-> p + 11]
    ELSE [ok |-> FALSE, val |-> FALSE, next |-> p]

IsOkBlock(b, p) ==
    /\ p + 7 <= Len(b)
    /\ IsKind(b, p + 5, "ident")
    /\ SubSeq(b, p, p + 7) = OkBlock(b[p + 3].s, b[p + 5].s)

RECURSIVE EvalIf(_, _, _)
EvalIf(b, p, xv) ==
    IF ~IsTok(b, p, Kw("if")) THEN DoesNotCompile
    ELSE LET c == Condition(b, p + 1, xv) IN
         IF ~c.ok \/ ~IsOkBlock(b, c.next) THEN DoesNotCompile
         ELSE LET r == c.next + 8
                  rest == IF ~IsTok(b, r, Kw("else")) THEN DoesNotCompile
                          ELSE IF IsTok(b, r + 1, Kw("if")) THEN EvalIf(b, r + 1, xv)
                          ELSE IF SubSeq(b, r, Len(b)) = ElseErr THEN Err(xv)
                          ELSE DoesNotCompile
              IN IF rest = DoesNotCompile THEN DoesNotCompile
                 ELSE IF c.val THEN Ok(b[c.next + 5].s)
                 ELSE rest

\* try_from(xv) of the emitted impl
EvalTryFrom(out, xv) == EvalIf(FnBody(out), 1, xv)

-----------------------------------------------------------------------------
(* enum_ranges: parse_macro_input!(tokens as RangedEnum), then into_token_stream *)

\* the end of syn's parse: nothing marked unexpected, nothing left over
Finish ==
    /\ pc = "parsed"
    /\ IF unexpected \/ pos <= Len(tokens)
       THEN /\ err' = Error("finish", pos, "unexpected token")
            /\ pc' = "error"
       ELSE /\ err' = err
            /\ pc' = "expand"
    /\ UNCHANGED <<src, tokens, group, pos, unexpected, attributes, name, variants, ranged, output, x, result, ident>>

\* Err(err) => return TokenStream::from(err.to_compile_error())
Abort ==
    /\ pc = "error"
    /\ output' = CompileErrorTokens(err)
    /\ pc' = "done"
    /\ UNCHANGED <<src, tokens, group, pos, unexpected, attributes, name, variants, ranged, err, x, result, ident>>

\* ranged.into_token_stream().into()
Expand ==
    /\ pc = "expand"
    /\ output' = ToTokens(attributes, name, variants)
    /\ pc' = "done"
    /\ UNCHANGED <<src, tokens, group, pos, unexpected, attributes, name, variants, ranged, err, x, result, ident>>

Next ==
    \/ ParseAttributes
    \/ ParseName
    \/ ParseBraced
    \/ ParseVariants
    \/ Finish
    \/ Abort
    \/ Expand

Spec == Init /\ [][Next]_vars

-----------------------------------------------------------------------------
(* The generated code in use: a parsed declaration is expanded and the       *)
(* emitted try_from is called.                                              *)

InitGen ==
    /\ \E attrs \in SeqsUpTo(Metas, MaxAttrs), l \in SeqsUpTo(Entries, MaxTokens) :
        /\ src = Written(attrs, l, FALSE, NoCut)
        /\ attributes = attrs
        /\ variants = l
    /\ tokens = TopOf(src)
    /\ group = BodyOf(src)
    /\ pos = Len(tokens) + 1
    /\ unexpected = FALSE
    /\ name = EnumName
    /\ ranged = NoRange
    /\ err = NoErr
    /\ output = <<>>
    /\ x = 0
    /\ result = NoResult
    /\ ident = NoIdent
    /\ pc = "expand"

\* LogTen::try_from(x)
TryFrom ==
    /\ pc = "done"
    /\ err = NoErr
    /\ \E xv \in 0..MaxX :
        /\ x' = xv
        /\ result' = EvalTryFrom(output, xv)
    /\ pc' = "called"
    /\ UNCHANGED <<src, tokens, group, pos, unexpected, attributes, name, variants, ranged, err, output, ident>>

NextGen ==
    \/ Expand
    \/ TryFrom

SpecGen == InitGen /\ [][NextGen]_vars

-----------------------------------------------------------------------------
(* NamedRange::parse on its own: syn::parse_str::<NamedRange>(...) *)

RawAlphabet == {Ident("A"), Punct(":"), LitInt(1), LitInt(2), Punct(".."), LitBig}

InitRange ==
    /\ group \in SeqsUpTo(RawAlphabet, MaxRawLen)
    /\ src = NoWritten
    /\ tokens = <<>>
    /\ pos = 1
    /\ unexpected = FALSE
    /\ attributes = <<>>
    /\ name = ""
    /\ variants = <<>>
    /\ ranged = NoRange
    /\ err = NoErr
    /\ output = <<>>
    /\ x = 0
    /\ result = NoResult
    /\ ident = NoIdent
    /\ pc = "range"

ParseStr ==
    /\ pc = "range"
    /\ LET r == NamedRangeParse(group, 1) IN
       IF ~r.ok
       THEN /\ err' = Error("range", r.pos, r.msg)
            /\ ranged' = ranged
       ELSE IF r.pos <= Len(group)
       THEN /\ err' = Error("range", r.pos, "unexpected token")
            /\ ranged' = ranged
       ELSE /\ err' = err
            /\ ranged' = r.value
    /\ pc' = "done"
    /\ UNCHANGED <<src, tokens, group, pos, unexpected, attributes, name, variants, output, x, result, ident>>

NextRange == ParseStr

SpecRange == InitRange /\ [][NextRange]_vars

-----------------------------------------------------------------------------
(* derive_describe_struct *)

Chars == {"O", "h", "N", "o"}

RECURSIVE Join(_)
Join(cs) == IF cs = <<>> THEN "" ELSE Head(cs) \o Join(Tail(cs))

TypeNames == {Join(cs) : cs \in SeqsUpTo(Chars, MaxNameLen) \ {<<>>}}

\* Ident::to_string: a raw identifier keeps its r# prefix
IdentToString(id) == IF id.raw THEN "r#" \o id.text ELSE id.text

\* quote! { impl DescribeStruct for #name { fn struct_name(&self) -> &'static str { #name_str } } }
DescribeTokens(id, name_str) ==
    <<Kw("impl"), Ident("DescribeStruct"), Kw("for"), Ident(IdentToString(id)), Punct("{"),
      Kw("fn"), Ident("struct_name"), Punct("("), Punct("&"), Kw("self"), Punct(")"),
      Punct("->"), Ident("&'static str"), Punct("{"), LitStr(name_str), Punct("}"), Punct("}")>>

\* quote_spanned! { name.span() => compile_error!("That name is not allowed"); }
NotAllowedTokens ==
    <<Ident("compile_error"), Punct("!"), Punct("("), LitStr("That name is not allowed"),
      Punct(")"), Punct(";")>>

InitDerive ==
    /\ ident \in [text : TypeNames, raw : BOOLEAN]
    /\ src = NoWritten
    /\ tokens = <<>>
    /\ group = <<>>
    /\ pos = 1
    /\ unexpected = FALSE
    /\ attributes = <<>>
    /\ name = ""
    /\ variants = <<>>
    /\ ranged = NoRange
    /\ err = NoErr
    /\ output = <<>>
    /\ x = 0
    /\ result = NoResult
    /\ pc = "derive"

DeriveDescribeStruct ==
    /\ pc = "derive"
    /\ LET name_str == IdentToString(ident) IN
       output' = IF name_str = "OhNo" THEN NotAllowedTokens
                 ELSE DescribeTokens(ident, name_str)
    /\ pc' = "done"
    /\ UNCHANGED <<src, tokens, group, pos, unexpected, attributes, name, variants, ranged, err, x, result, ident>>

NextDerive == DeriveDescribeStruct

SpecDerive == InitDerive /\ [][NextDerive]_vars

-----------------------------------------------------------------------------
(* What the specification says of a Range Token and of a Range List *)

\* x == start when end is absent, start <= x < end when it is present
Matches(nr, xv) ==
    IF nr.end = None THEN xv = nr.start ELSE nr.start <= xv /\ xv < nr.end[1]

RECURSIVE FirstMatch(_, _)
FirstMatch(list, xv) ==
    IF list = <<>> THEN Err(xv)
    ELSE IF Matches(Head(list), xv) THEN Ok(Head(list).name)
    ELSE FirstMatch(Tail(list), xv)

IfPositions(b) == {p \in 1..Len(b) : b[p] = Kw("if")}
ElsePositions(b) == {p \in 1..Len(b) : b[p] = Kw("else")}
NthIf(b, i) ==
    CHOOSE p \in IfPositions(b) : Cardinality({q \in IfPositions(b) : q < p}) = i - 1

\* the value of the test of the i-th clause of the emitted chain at xv
ClauseVal(out, i, xv) == Condition(FnBody(out), NthIf(FnBody(out), i) + 1, xv).val

Generated(out) == Has(out, Kw("enum")) \/ Has(out, Kw("impl")) \/ Has(out, Kw("fn"))

WellFormed(w) ==
    /\ w.cut = NoCut
    /\ \A k \in 1..Len(w.pre) : w.pre[k] \in Metas
    /\ ~(w.entries = <<>> /\ w.trailing)

-----------------------------------------------------------------------------
(* Claims *)

\* C1: for every declaration and every x the generated conversion function returns
\* Ok of the variant of the first Range Token, in declared order, whose test
\* succeeds on x, and Err(x) when no test succeeds.
C1_FirstMatchWins ==
    pc = "called" => result = FirstMatch(variants, x)

\* C2: for a declaration with zero Range Tokens the emitted conversion function is
\* well-formed and returns Err(x) for every x.
C2_ZeroTokensAlwaysFail ==
    (pc = "called" /\ variants = <<>>) => result = Err(x)

\* C3: the test of each clause depends on its own Range Token alone: x == start when
\* end is absent, start <= x < end when it is present; a token whose end is at most
\* its start is parsed without error and its clause is false for every x.
C3_ClauseTest ==
    (pc = "done" /\ WellFormed(src)) =>
        /\ err = NoErr
        /\ Cardinality(IfPositions(FnBody(output))) = Len(src.entries)
        /\ \A i \in 1..Len(src.entries) : \A xv \in 0..MaxX :
            /\ ClauseVal(output, i, xv) = Matches(src.entries[i], xv)
            /\ (src.entries[i].end # None /\ src.entries[i].end[1] <= src.entries[i].start)
                   => ~ClauseVal(output, i, xv)

C3_Witness ==
    /\ pc = "done" /\ WellFormed(src) /\ err = NoErr
    /\ Len(src.entries) = 2
    /\ src.entries[1] = NamedRangeOf("A", 1, Some(0))
    /\ src.entries[2] = NamedRangeOf("B", 0, Some(2))
    /\ ~ClauseVal(output, 1, 1) /\ ClauseVal(output, 2, 1) /\ ~ClauseVal(output, 2, 2)

\* C4: the generator emits one enum variant per Range Token, in list order and by
\* the token's name (duplicates kept), and every captured annotation, in captured
\* order and unmodified, immediately before the enum.
C4_EnumEmission ==
    (pc \in {"done", "called"}) =>
        LET e == IndexOf(output, Kw("enum"))
            close == IndexOf(output, Punct("}"))
        IN  /\ e = 2 * Len(attributes) + 1
            /\ \A k \in 1..Len(attributes) :
                /\ output[2 * k - 1] = Punct("#")
                /\ output[2 * k] = Bracket(attributes[k])
            /\ SubSeq(output, e, e + 2) = EnumHeader(name)
            /\ close = e + 3 + 2 * Len(variants)
            /\ \A k \in 1..Len(variants) :
                /\ output[e + 1 + 2 * k] = Ident(variants[k].name)
                /\ output[e + 2 + 2 * k] = Punct(",")

C4_Witness ==
    /\ pc = "done"
    /\ attributes = <<"repr(u8)", "derive(Debug)">>
    /\ Len(variants) = 2 /\ variants[1].name = "B" /\ variants[2].name = "B"
    /\ Has(output, Kw("enum"))

\* C5: Name: K alone parses to {name, start: K, end: None}; Name: K..M parses to
\* {name, start: K, end: Some(M)}; once .. follows K an integer literal is
\* mandatory, so Name: K.. is an error and never yields a token with end absent.
C5_RangeTokenParse ==
    (pc = "done") =>
        LET prefix == /\ Len(group) >= 3
                      /\ group[1].t = "ident" /\ group[2] = Punct(":")
                      /\ group[3].t = "int" /\ group[3] # LitBig
            dots == prefix /\ Len(group) >= 4 /\ group[4] = Punct("..")
            upper == dots /\ Len(group) >= 5 /\ group[5].t = "int" /\ group[5] # LitBig
        IN  /\ (prefix /\ Len(group) = 3)
                => (err = NoErr /\ ranged = NamedRangeOf(group[1].s, group[3].v, None))
            /\ (upper /\ Len(group) = 5)
                => (err = NoErr
                    /\ ranged = NamedRangeOf(group[1].s, group[3].v, Some(group[5].v)))
            /\ (dots /\ ~upper) => err # NoErr
            /\ (dots /\ err = NoErr) => ranged.end # None

C5_Witness ==
    /\ pc = "done"
    /\ group = <<Ident("A"), Punct(":"), LitInt(1), Punct("..")>>
    /\ err = Error("range", 5, "expected integer literal")

\* C6: Range List parsing returns the tokens in source order, and for every
\* well-formed non-empty comma-separated list L, parsing L followed by one trailing
\* comma yields the same sequence as parsing L.
C6_TrailingComma ==
    (src.cut = NoCut /\ src.entries # <<>>) =>
        LET plain == NamedRangeListParse(RenderBody(src.entries, FALSE))
            comma == NamedRangeListParse(RenderBody(src.entries, TRUE))
        IN  /\ err.stage # "variants"
            /\ (pc = "parsed") => variants = src.entries
            /\ plain.ok /\ comma.ok /\ comma.list = plain.list

C6_Witness ==
    /\ pc = "parsed"
    /\ src.trailing /\ src.cut = NoCut
    /\ src.entries = <<NamedRangeOf("B", 1, Some(2)), NamedRangeOf("A", 0, None)>>
    /\ group[Len(group)] = Punct(",")
    /\ variants = src.entries

C8_ErrorAborts ==
    /\ (err # NoErr) =>
            /\ pc \in {"error", "done"}
            /\ ~Generated(output)
            /\ (pc = "done") => output = CompileErrorTokens(err)
    /\ (pc = "done" /\ src.cut.where = "body"
            /\ ~(src.trailing /\ src.cut.at = Len(RenderBody(src.entries, src.trailing))))
         => (err # NoErr /\ (err.stage = "variants" => err.at = src.cut.at))
    /\ (pc = "done" /\ src.cut.where = "top" /\ src.cut.at >= Len(RenderTop(src.pre)) - 1)
         => err.stage \in {"name", "braced"}

C8_Witness ==
    /\ pc = "done"
    /\ src.cut.where = "body"
    /\ err.stage = "variants"
    /\ output = CompileErrorTokens(err)

\* C9: DescribeStruct derived on a type named OhNo fails the build and emits no
\* method; derived on a type of any other name it emits struct_name returning
\* exactly that name.
C9_ReservedName ==
    (pc = "done") =>
        IF ident.text = "OhNo" THEN output = NotAllowedTokens
        ELSE /\ Has(output, Ident("struct_name"))
             /\ Has(output, LitStr(ident.text))

\* C10: for n >= 1 Range Tokens the emitted chain has n test clauses in list order,
\* the first without a leading else, each of the other n-1 preceded by exactly one
\* else, and ends with exactly one final else { Err(x) }.
C10_ChainShape ==
    (pc = "done" /\ Len(variants) >= 1) =>
        LET b == FnBody(output)
            n == Len(variants)
            ifs == IfPositions(b)
            elses == ElsePositions(b)
            last == Len(b) - Len(ElseErr) + 1
            nth(i) == CHOOSE p \in ifs : Cardinality({q \in ifs : q < p}) = i - 1
        IN  /\ Cardinality(ifs) = n
            /\ Cardinality(elses) = n
            /\ b[1] = Kw("if")
            /\ \A p \in ifs : p > 1 => (b[p - 1] = Kw("else") /\ b[p - 2] # Kw("else"))
            /\ SubSeq(b, last, Len(b)) = ElseErr
            /\ \A q \in elses : q # last => b[q + 1] = Kw("if")
            /\ \A i \in 1..n :
                LET c == Condition(b, nth(i) + 1, variants[i].start) IN
                /\ c.ok
                /\ c.val = Matches(variants[i], variants[i].start)
                /\ b[c.next + 5] = Ident(variants[i].name)

C10_Witness ==
    /\ pc = "done"
    /\ Len(variants) = MaxTokens
    /\ variants[1] # variants[2]
    /\ Cardinality(ElsePositions(FnBody(output))) = MaxTokens

====
